---- MODULE Spec2Model ----
(***************************************************************************)
(* Model of linkedin_multi_conversation.py: a LangGraph StateGraph with    *)
(* two nodes (model_node, human_node), a MemorySaver checkpointer, a       *)
(* static breakpoint before human_node, and the console driver loop.       *)
(*                                                                         *)
(* Library behaviour the program relies on is modelled as documented by    *)
(* LangGraph:                                                              *)
(*  - add_messages merges by message id: a message without id gets a       *)
(*    fresh id and is appended, a message whose id is already in the list  *)
(*    replaces that element in place;                                      *)
(*  - the checkpointer saves a checkpoint at the end of every super-step   *)
(*    (and for the run's input);                                           *)
(*  - Command(goto=...) only ADDS dynamic edges; static edges declared     *)
(*    with add_edge still fire, and goto=END adds nothing;                 *)
(*  - interrupt_before pauses the graph before the named node, and a       *)
(*    later Command(resume=v) runs that node with interrupt() returning v. *)
(* Strings that are trimmed or lower-cased are sequences of one-character  *)
(* strings, so strip() and lower() are computed, not assumed.              *)
(***************************************************************************)
EXTENDS Integers, Sequences, FiniteSets, TLC

\* ---------------------------------------------------------------- bounds
\* number of answers the reviewer types at the console in one behaviour
MaxRounds == 2

\* ------------------------------------------------------- program constants
\* a loop that tries once more than intended
max_retries_plus_one == 3 + 1

max_retries == 3

thread_config == "linkedin_multi_conversation_thread"

\* a thread id the program never uses
OtherThread == "another_thread"

\* the keys of the checkpoint store
ThreadIds == {thread_config, OtherThread}

linkedin_topic == "The future of AI in healthcare"

START == "__start__"

END == "__end__"

\* HumanMessage(content="No Feedback yet")
NoFeedbackYet ==
  <<"N","o"," ","F","e","e","d","b","a","c","k"," ","y","e","t">>

\* the literal the responses are compared with
DoneLiteral == <<"d","o","n","e">>

\* ------------------------------------------------------ environment inputs
\* texts the reviewer may type at input()
Responses ==
  { <<"d","o","n","e">>,
    <<" ","D","o","n","e"," ">>,
    <<"D","O","N","E">>,
    <<"M","a","k","e"," ","i","t"," ","s","h","o","r","t","e","r">>,
    <<>> }

\* texts the LLM may answer with
LLMContents == {"post_a", "post_b"}

\* exceptions an LLM call may raise
LLMErrors == {"timeout", "overloaded"}

NoError == "none"

\* no prompt has been built in this call of generate_linkedin_post
NoPrompt == [topic |-> "", feedback |-> <<>>, error |-> <<>>]

\* ----------------------------------------------------------- str methods
UpperChars ==
  <<"A","B","C","D","E","F","G","H","I","J","K","L","M",
    "N","O","P","Q","R","S","T","U","V","W","X","Y","Z">>

LowerChars ==
  <<"a","b","c","d","e","f","g","h","i","j","k","l","m",
    "n","o","p","q","r","s","t","u","v","w","x","y","z">>

Whitespace == {" ", "\t", "\n", "\r"}

LowerChar(c) ==
  IF \E i \in 1..Len(UpperChars) : UpperChars[i] = c
  THEN LowerChars[CHOOSE i \in 1..Len(UpperChars) : UpperChars[i] = c]
  ELSE c

\* str.lower()
lower(s) == [i \in 1..Len(s) |-> LowerChar(s[i])]

RECURSIVE lstrip(_)
lstrip(s) ==
  IF s # <<>> /\ Head(s) \in Whitespace THEN lstrip(Tail(s)) ELSE s

RECURSIVE rstrip(_)
rstrip(s) ==
  IF s # <<>> /\ s[Len(s)] \in Whitespace
  THEN rstrip(SubSeq(s, 1, Len(s) - 1))
  ELSE s

\* str.strip()
strip(s) == rstrip(lstrip(s))

\* -------------------------------------------------------------- messages
\* id 0 stands for a message constructed without id (id=None)
AIMessage(c) == [id |-> 0, content |-> c]

HumanMessage(c) == [id |-> 0, content |-> c]

\* number of messages of a list that have no id yet
RECURSIVE CountNoId(_)
CountNoId(ms) ==
  IF ms = <<>> THEN 0
  ELSE (IF Head(ms).id = 0 THEN 1 ELSE 0) + CountNoId(Tail(ms))

\* add_messages, first part: every message without id gets a fresh uuid
RECURSIVE AssignIds(_, _)
AssignIds(ms, fresh) ==
  IF ms = <<>> THEN <<>>
  ELSE IF Head(ms).id = 0
       THEN <<[Head(ms) EXCEPT !.id = fresh]>> \o AssignIds(Tail(ms), fresh + 1)
       ELSE <<Head(ms)>> \o AssignIds(Tail(ms), fresh)

\* add_messages, second part: replace in place by id, else append
RECURSIVE MergeById(_, _)
MergeById(left, right) ==
  IF right = <<>> THEN left
  ELSE LET m == Head(right)
           hit == {i \in 1..Len(left) : left[i].id = m.id}
       IN IF hit # {}
          THEN MergeById([left EXCEPT ![CHOOSE i \in hit : TRUE] = m], Tail(right))
          ELSE MergeById(Append(left, m), Tail(right))

\* a reducer that forgets the existing list (what a field without
\* add_messages would do)
add_messages_overwrite(left, right, fresh) == AssignIds(right, fresh)

\* a reducer that always appends, ignoring ids
add_messages_append(left, right, fresh) == left \o AssignIds(right, fresh)

\* the reducer of State.generated_post and State.human_feedback
add_messages(left, right, fresh) == MergeById(left, AssignIds(right, fresh))

Contents(ms) == [i \in 1..Len(ms) |-> ms[i].content]

IsPrefix(s, t) == Len(s) <= Len(t) /\ SubSeq(t, 1, Len(s)) = s

\* ------------------------------------------------------------------ graph
\* workflow.add_edge(...)
Edges ==
  { <<START, "model_node">>,
    <<"model_node", "human_node">>,
    <<"human_node", "model_node">> }

\* compile(interrupt_before=[...])
interrupt_before == {"human_node"}

\* nodes that run after node n returned a Command with the goto set `goto`
\* (the empty set for a plain dict): static edges plus dynamic edges; END is
\* not a node and is never branched to
NextNodes(n, goto) ==
  {e[2] : e \in {d \in Edges : d[1] = n}} \cup (goto \ {END})

\* a checkpoint: the channel values and the nodes to run next
Checkpoint(gp, hf, nxt) ==
  [generated_post |-> gp, human_feedback |-> hf, next |-> nxt]

VARIABLES
  generated_post,    \* State.generated_post of the running graph
  human_feedback,    \* State.human_feedback of the running graph
  memory_saver,      \* MemorySaver: thread id -> checkpoints, oldest first
  status,            \* "idle", "running", "interrupted", "error", "ended"
  node,              \* the node that runs next (END when there is none)
  feedback,          \* generate_linkedin_post: local `feedback`
  error,             \* generate_linkedin_post: local `error`
  attempt,           \* generate_linkedin_post: self.invoke calls made in this step
  response,          \* generate_linkedin_post: content of the last LLM response
  prompt,            \* generate_linkedin_post: the prompt of the last self.invoke
  exc,               \* generate_linkedin_post: the exception last caught in this step
  raised,            \* the exception that left the graph, if any
  driver,            \* position of the __main__ block
  user_feedback,     \* __main__: local `user_feedback`
  responses,         \* everything input() has returned so far
  interrupt_payload, \* the generated_post handed to interrupt()
  next_id,           \* source of fresh message ids
  generations,       \* number of "[model_node] Generated post" lines printed
  llm_calls          \* number of self.invoke calls made

vars ==
  << generated_post, human_feedback, memory_saver, status, node, feedback,
     error, attempt, response, prompt, exc, raised, driver, user_feedback, responses,
     interrupt_payload, next_id, generations, llm_calls >>

\* whether the thread has a checkpoint at all
HasCheckpoint(t) == memory_saver[t] # <<>>

\* a store that hands out the thread's oldest checkpoint
get_tuple_oldest(t) == memory_saver[t][1]

\* MemorySaver.get_tuple: the latest checkpoint of the thread
get_tuple(t) == memory_saver[t][Len(memory_saver[t])]

\* a graph compiled without checkpointer: nothing is stored
put_nothing(t, cp) == memory_saver

\* MemorySaver.put
put(t, cp) == [memory_saver EXCEPT ![t] = Append(@, cp)]

\* workflow phases
Generating == status = "running" /\ node = "model_node"

AwaitingFeedback == status = "interrupted" /\ node = "human_node"

Terminated == status = "ended"

\* what human_node sees as "done"
IsDone(r) == lower(strip(r)) = DoneLiteral

\* responses that interrupt() has already returned to human_node
Delivered ==
  IF driver = "resume" THEN SubSeq(responses, 1, Len(responses) - 1)
  ELSE responses

NotDone(r) == ~IsDone(r)

\* ------------------------------------------------------------------- Init
\* state = State(linkedin_topic=...), nothing has run
Init ==
  /\ generated_post = <<>>
  /\ human_feedback = <<>>
  /\ memory_saver = [t \in ThreadIds |-> <<>>]
  /\ status = "idle"
  /\ node = START
  /\ feedback = <<>>
  /\ error = <<>>
  /\ attempt = 0
  /\ response = ""
  /\ prompt = NoPrompt
  /\ exc = NoError
  /\ raised = NoError
  /\ driver = "start"
  /\ user_feedback = <<>>
  /\ responses = <<>>
  /\ interrupt_payload = <<>>
  /\ next_id = 1
  /\ generations = 0
  /\ llm_calls = 0

\* ---------------------------------------------------------------- actions
\* a step that starts with the error text the previous step left behind
ModelLocalError_kept(prev) == prev

\* generate_linkedin_post: error = ""
ModelLocalError(prev) == <<>>

\* an except branch that adds the new error text to the old one
error_text_accumulated(prev, e) == prev \o <<"Error occurred: ", e>>

\* generate_linkedin_post: error = f"Error occurred: {str(e)}"
error_text(prev, e) == <<"Error occurred: ", e>>

\* a prompt built from the oldest feedback entry
Prompt_first_feedback(topic, fb, err) ==
  [topic |-> topic,
   feedback |-> IF fb # <<>> THEN fb[1].content
                ELSE <<"N","o"," ","f","e","e","d","b","a","c","k"," ","y","e","t">>,
   error |-> err]

\* generate_linkedin_post: the f-string, as the three values it interpolates
Prompt(topic, fb, err) ==
  [topic |-> topic,
   feedback |-> IF fb # <<>> THEN fb[Len(fb)].content
                ELSE <<"N","o"," ","f","e","e","d","b","a","c","k"," ","y","e","t">>,
   error |-> err]

\* generate_linkedin_post, up to the retry loop: the locals
ModelLocalFeedback(hf) ==
  IF hf # <<>> THEN hf ELSE <<HumanMessage(NoFeedbackYet)>>

\* the status and node after a super-step of node n that returned `goto`
AfterNode(n, goto) ==
  LET nxt == NextNodes(n, goto)
  IN IF nxt = {} THEN [status |-> "ended", node |-> END]
     ELSE LET m == CHOOSE x \in nxt : TRUE
          IN [status |-> IF m \in interrupt_before THEN "interrupted" ELSE "running",
              node |-> m]

\* graph.stream(state, config=thread_config): the input is checkpointed and
\* START hands over to model_node, which sets up its locals
StreamStart ==
  /\ driver = "start"
  /\ LET a == AfterNode(START, {})
     IN /\ status' = a.status
        /\ node' = a.node
        /\ memory_saver' = put(thread_config, Checkpoint(generated_post, human_feedback, a.node))
  /\ feedback' = ModelLocalFeedback(human_feedback)
  /\ error' = ModelLocalError(error)
  /\ attempt' = 0
  /\ prompt' = NoPrompt
  /\ exc' = NoError
  /\ driver' = "streaming"
  /\ UNCHANGED << generated_post, human_feedback, response, raised,
                  user_feedback, responses, interrupt_payload, next_id,
                  generations, llm_calls >>

\* one iteration of the retry loop whose self.invoke raises e
LLMFail(e) ==
  /\ Generating
  /\ attempt < max_retries
  /\ llm_calls' = llm_calls + 1
  /\ prompt' = Prompt(linkedin_topic, feedback, error)
  /\ exc' = e
  /\ error' = error_text(error, e)
  /\ attempt' = attempt + 1
  /\ IF attempt = max_retries - 1
     THEN /\ raised' = e
          /\ status' = "error"
          /\ driver' = "crashed"
     ELSE UNCHANGED << raised, status, driver >>
  /\ UNCHANGED << generated_post, human_feedback, memory_saver, node, feedback,
                  response, user_feedback, responses, interrupt_payload,
                  next_id, generations >>

\* a node that forgets to return the new post
model_return_nopost(c, fb) ==
  [generated_post |-> <<>>, human_feedback |-> fb]

\* the dict generate_linkedin_post returns for LLM content c
model_return(c, fb) ==
  [generated_post |-> <<AIMessage(c)>>, human_feedback |-> fb]

\* one iteration of the retry loop whose self.invoke returns content c: the
\* node returns its update, the reducers merge it, the super-step is
\* checkpointed and the graph pauses before human_node
LLMOk(c) ==
  /\ Generating
  /\ attempt < max_retries
  /\ llm_calls' = llm_calls + 1
  /\ attempt' = attempt + 1
  /\ generations' = generations + 1
  /\ prompt' = Prompt(linkedin_topic, feedback, error)
  /\ response' = c
  /\ UNCHANGED << feedback, error, exc, raised, user_feedback, responses,
                  interrupt_payload >>
  /\ LET out == model_return(c, feedback)
         n1  == CountNoId(out.generated_post)
         gp  == add_messages(generated_post, out.generated_post, next_id)
         hf  == add_messages(human_feedback, out.human_feedback, next_id + n1)
         a   == AfterNode("model_node", {})
     IN /\ generated_post' = gp
        /\ human_feedback' = hf
        /\ next_id' = next_id + n1 + CountNoId(out.human_feedback)
        /\ status' = a.status
        /\ node' = a.node
        /\ memory_saver' = put(thread_config, Checkpoint(gp, hf, a.node))
  /\ driver' = IF driver = "streaming" THEN "input" ELSE "check"

\* user_feedback = input(...)
Input(r) ==
  /\ driver = "input"
  /\ Len(responses) < MaxRounds
  /\ user_feedback' = r
  /\ responses' = Append(responses, r)
  /\ driver' = "resume"
  /\ UNCHANGED << generated_post, human_feedback, memory_saver, status, node,
                  feedback, error, attempt, response, prompt, exc, raised,
                  interrupt_payload, next_id, generations, llm_calls >>

\* a feedback step that stores the trimmed, lower-cased response
human_node_normalised(r) ==
  IF lower(strip(r)) = DoneLiteral
  THEN [goto |-> {END}, human_feedback |-> <<>>]
  ELSE [goto |-> {}, human_feedback |-> <<HumanMessage(lower(strip(r)))>>]

\* human_node with interrupt() returning r: the Command's goto set and the
\* state update
human_node(r) ==
  IF lower(strip(r)) = DoneLiteral
  THEN [goto |-> {END}, human_feedback |-> <<>>]
  ELSE [goto |-> {}, human_feedback |-> <<HumanMessage(r)>>]

\* graph.invoke(Command(resume=user_feedback), config=thread_config): the
\* state is read from the thread's latest checkpoint, human_node runs with
\* the resume value, its super-step is checkpointed, and the nodes that
\* follow it are scheduled (model_node sets up its locals)
Resume ==
  /\ driver = "resume"
  /\ HasCheckpoint(thread_config)
  /\ LET cp  == get_tuple(thread_config)
         out == human_node(user_feedback)
         hf  == add_messages(cp.human_feedback, out.human_feedback, next_id)
         a   == AfterNode("human_node", out.goto)
     IN /\ interrupt_payload' = cp.generated_post
        /\ generated_post' = cp.generated_post
        /\ human_feedback' = hf
        /\ next_id' = next_id + CountNoId(out.human_feedback)
        /\ status' = a.status
        /\ node' = a.node
        /\ memory_saver' = put(thread_config, Checkpoint(cp.generated_post, hf, a.node))
        /\ feedback' = ModelLocalFeedback(hf)
  /\ error' = ModelLocalError(error)
  /\ attempt' = 0
  /\ prompt' = NoPrompt
  /\ exc' = NoError
  /\ driver' = "invoking"
  /\ UNCHANGED << response, raised, user_feedback, responses, generations,
                  llm_calls >>

\* a driver that, instead of asking again, lets the graph run on without
\* a resume value
LoopCheck_restart ==
  /\ driver = "check"
  /\ driver' = IF lower(user_feedback) = DoneLiteral THEN "exited" ELSE "invoking"
  /\ status' = IF lower(user_feedback) = DoneLiteral THEN status ELSE "running"
  /\ node' = IF lower(user_feedback) = DoneLiteral THEN node ELSE "model_node"
  /\ UNCHANGED << generated_post, human_feedback, memory_saver,
                  feedback, error, attempt, response, prompt, exc, raised,
                  user_feedback, responses, interrupt_payload, next_id,
                  generations, llm_calls >>

\* if user_feedback.lower() == "done": break
LoopCheck ==
  /\ driver = "check"
  /\ driver' = IF lower(user_feedback) = DoneLiteral THEN "exited" ELSE "input"
  /\ UNCHANGED << generated_post, human_feedback, memory_saver, status, node,
                  feedback, error, attempt, response, prompt, exc, raised,
                  user_feedback, responses, interrupt_payload, next_id,
                  generations, llm_calls >>

Next ==
  \/ StreamStart
  \/ \E e \in LLMErrors : LLMFail(e)
  \/ \E c \in LLMContents : LLMOk(c)
  \/ \E r \in Responses : Input(r)
  \/ Resume
  \/ LoopCheck

Spec == Init /\ [][Next]_vars

\* the program's own steps are taken when they can be: an LLM call returns
\* or raises, graph.stream and graph.invoke run, the loop test is made, and
\* input() returns once the reviewer has typed an answer
FairSpec == Spec /\ WF_vars(Next)

TypeOK ==
  /\ status \in {"idle", "running", "interrupted", "error", "ended"}
  /\ node \in {START, "model_node", "human_node", END}
  /\ attempt \in 0..max_retries
  /\ driver \in {"start", "streaming", "input", "resume", "invoking", "check",
                 "exited", "crashed"}
  /\ raised \in LLMErrors \cup {NoError}
  /\ Len(responses) <= MaxRounds

\* ----------------------------------------------------------------- claims
MakeItShorter ==
  <<"M","a","k","e"," ","i","t"," ","s","h","o","r","t","e","r">>

LatestCheckpoint ==
  memory_saver[thread_config][Len(memory_saver[thread_config])]

DoneDelivered == \E i \in 1..Len(Delivered) : IsDone(Delivered[i])

\* C1 (as claimed): when the run ends after N responses that are not "done"
\* followed by one "done", exactly N+1 generation steps have completed and
\* drafts has length N+1.
C1_Claim ==
  ( /\ driver = "exited"
    /\ \A i \in 1..(Len(responses) - 1) : NotDone(responses[i]) )
  => ( /\ generations = Len(responses)
       /\ Len(generated_post) = Len(responses) )

\* C2 (as claimed): the feedback sequence is always exactly the reviewer's
\* non-"done" responses, in order; the placeholder is never stored.
C2_Claim ==
  Contents(human_feedback) = SelectSeq(Delivered, NotDone)

\* C2 (amended): the feedback sequence is empty until the first draft exists
\* and from then on is the "No Feedback yet" placeholder followed by exactly
\* the reviewer's non-"done" responses, in order.
C2_PlaceholderPersisted ==
  Contents(human_feedback) =
    (IF generations = 0 THEN <<>> ELSE <<NoFeedbackYet>>)
      \o SelectSeq(Delivered, NotDone)

C2_Witness ==
  /\ driver = "exited"
  /\ responses = <<MakeItShorter, DoneLiteral>>
  /\ Contents(human_feedback) = <<NoFeedbackYet, MakeItShorter>>

\* C3 (as claimed): a resume whose response is "done" after strip() and
\* lower() moves the workflow to Terminated, appends no feedback and no
\* draft, and no generation step runs afterwards.
C3_Claim ==
  /\ [][ (driver = "resume" /\ AwaitingFeedback /\ IsDone(user_feedback))
         => ( /\ Terminated'
              /\ human_feedback' = human_feedback
              /\ generated_post' = generated_post
              /\ llm_calls' = llm_calls ) ]_vars
  /\ [](DoneDelivered => (Terminated /\ ~Generating))

\* C4: a generation step calls the LLM at most 3 times; when the third call
\* fails too, the exception of that third call leaves the graph, and drafts
\* and feedback are what they were when the step started.
C4_RetryBound ==
  /\ [](attempt <= 3)
  /\ [](status = "error" =>
          /\ attempt = 3
          /\ raised \in LLMErrors
          /\ error = <<"Error occurred: ", raised>>
          /\ generated_post = LatestCheckpoint.generated_post
          /\ human_feedback = LatestCheckpoint.human_feedback)
  /\ [][ (Generating /\ ~AwaitingFeedback')
         => ( /\ generated_post' = generated_post
              /\ human_feedback' = human_feedback
              /\ (raised' # NoError => (attempt = 2 /\ status' = "error")) ) ]_vars

C4_Witness ==
  /\ status = "error"
  /\ driver = "crashed"
  /\ attempt = 3
  /\ Len(generated_post) = 1

\* C5: a generation step that fails k times (k in 0..2) and then succeeds
\* appends exactly one draft, the content of the successful call, calls the
\* LLM no more, raises nothing and leaves the workflow awaiting feedback;
\* failed attempts change neither the state nor the workflow phase.
C5_OneDraftPerStep ==
  /\ [][ (Generating /\ generations' # generations)
         => ( /\ Contents(generated_post') = Append(Contents(generated_post), response')
              /\ generations' = generations + 1
              /\ llm_calls' = llm_calls + 1
              /\ raised' = NoError
              /\ AwaitingFeedback' ) ]_vars
  /\ [][ (Generating /\ Generating')
         => ( /\ generated_post' = generated_post
              /\ human_feedback' = human_feedback
              /\ memory_saver' = memory_saver ) ]_vars
  /\ [][ ~Generating => llm_calls' = llm_calls ]_vars
  /\ [](Len(generated_post) = generations)

C5_Witness ==
  /\ AwaitingFeedback
  /\ attempt = 3
  /\ llm_calls = 3
  /\ Len(generated_post) = 1
  /\ raised = NoError

\* C6: in every step the old drafts are a prefix of the new drafts and the
\* old feedback is a prefix of the new feedback.
C6_AppendOnly ==
  [][ /\ IsPrefix(generated_post, generated_post')
      /\ IsPrefix(human_feedback, human_feedback') ]_vars

C6_Witness ==
  /\ Len(generated_post) = 3
  /\ Len(human_feedback) = 3

\* C7: whenever the workflow is suspended awaiting feedback, the thread's
\* latest checkpoint holds the current state, the draft just generated
\* included, and names the feedback step as the pending step.
C7_CheckpointAtSuspension ==
  AwaitingFeedback =>
    /\ memory_saver[thread_config] # <<>>
    /\ LatestCheckpoint.generated_post = generated_post
    /\ LatestCheckpoint.human_feedback = human_feedback
    /\ LatestCheckpoint.next = "human_node"

C7_Witness ==
  /\ AwaitingFeedback
  /\ Len(generated_post) = 2
  /\ Len(memory_saver[thread_config]) = 4

C9_ResumeFromCheckpoint ==
  [][ driver = "resume"
      => ( /\ interrupt_payload' = LatestCheckpoint.generated_post
           /\ generated_post' = LatestCheckpoint.generated_post
           /\ generated_post' = generated_post
           /\ llm_calls' = llm_calls
           /\ generations' = generations
           /\ attempt' = 0 ) ]_vars

C9_Witness ==
  /\ driver = "invoking"
  /\ Len(interrupt_payload) = 2
  /\ interrupt_payload = generated_post

\* C11 (as claimed): once the feedback step has taken its "done" branch the
\* workflow is Terminated for good: no generation step and no feedback step
\* runs, and drafts, feedback and the stored checkpoints never change again.
C11_Claim ==
  [][ (Terminated \/ DoneDelivered)
      => ( /\ generated_post' = generated_post
           /\ human_feedback' = human_feedback
           /\ memory_saver' = memory_saver
           /\ llm_calls' = llm_calls
           /\ ~Generating' ) ]_vars

\* C12: the feedback step leaves drafts alone; on "done" it leaves feedback
\* alone too, and on any other response it appends exactly one entry whose
\* content is the response as typed.
C12_FeedbackStepFrame ==
  [][ driver = "resume"
      => ( /\ generated_post' = generated_post
           /\ IF lower(strip(user_feedback)) = DoneLiteral
              THEN human_feedback' = human_feedback
              ELSE /\ Len(human_feedback') = Len(human_feedback) + 1
                   /\ SubSeq(human_feedback', 1, Len(human_feedback)) = human_feedback
                   /\ human_feedback'[Len(human_feedback')].content = user_feedback ) ]_vars

C12_Witness ==
  /\ driver = "invoking"
  /\ Len(generated_post) = 1
  /\ Contents(human_feedback) = <<NoFeedbackYet, MakeItShorter>>

C15_LastErrorOnly ==
  [][ llm_calls' # llm_calls
      => prompt'.error =
           IF attempt = 0 THEN <<>> ELSE <<"Error occurred: ", exc>> ]_vars

C15_Witness ==
  /\ Generating
  /\ generations = 1
  /\ llm_calls = 5
  /\ attempt = 2
  /\ prompt.error = <<"Error occurred: ", "timeout">>
  /\ exc = "overloaded"

\* C16 (as claimed): every LLM call carries the topic and the content of the
\* last feedback entry, or the marker when there is none; that feedback text
\* is never empty; after a resume with a response r that is not "done" the
\* next call carries r.
C16_Claim ==
  [][ llm_calls' # llm_calls
      => ( /\ prompt'.topic = linkedin_topic
           /\ prompt'.feedback =
                IF human_feedback = <<>> THEN NoFeedbackYet
                ELSE human_feedback[Len(human_feedback)].content
           /\ prompt'.feedback # <<>>
           /\ (Delivered # <<>> /\ NotDone(Delivered[Len(Delivered)]))
                => prompt'.feedback = Delivered[Len(Delivered)] ) ]_vars

\* C16 (amended): as claimed, except that the feedback text of the call is
\* empty exactly when the last feedback entry is an empty response.
C16_RequestCarriesLastFeedback ==
  [][ llm_calls' # llm_calls
      => ( /\ prompt'.topic = linkedin_topic
           /\ prompt'.feedback =
                IF human_feedback = <<>> THEN NoFeedbackYet
                ELSE human_feedback[Len(human_feedback)].content
           /\ (prompt'.feedback = <<>>) <=>
                (Delivered # <<>> /\ SelectSeq(Delivered, NotDone) # <<>>
                 /\ LET nd == SelectSeq(Delivered, NotDone) IN nd[Len(nd)] = <<>>)
           /\ (Delivered # <<>> /\ NotDone(Delivered[Len(Delivered)]))
                => prompt'.feedback = Delivered[Len(Delivered)] ) ]_vars

C16_Witness ==
  /\ llm_calls = 3
  /\ generations = 3
  /\ responses = <<MakeItShorter, <<>> >>
  /\ prompt.feedback = <<>>
  /\ prompt.topic = linkedin_topic

\* C17: while the workflow is suspended before the feedback step, the only
\* step that ends the suspension is the driver's resume with the text the
\* reviewer typed; every other step leaves it suspended and changes neither
\* drafts, feedback, checkpoints nor the number of LLM calls.
C17_SuspendedUntilResume ==
  [][ AwaitingFeedback
      => \/ /\ driver = "resume"
            /\ driver' = "invoking"
            /\ user_feedback = responses[Len(responses)]
         \/ /\ AwaitingFeedback'
            /\ generated_post' = generated_post
            /\ human_feedback' = human_feedback
            /\ memory_saver' = memory_saver
            /\ llm_calls' = llm_calls
            /\ generations' = generations ]_vars

C17_Witness ==
  /\ AwaitingFeedback
  /\ driver = "input"
  /\ Len(responses) = 1
  /\ Len(generated_post) = 2

\* C18 (as claimed): a generation step makes at most 3 LLM calls, and once
\* the reviewer has answered "done", unless a generation step fails for
\* good, the run eventually is Terminated with the driver loop left.
C18_Claim ==
  /\ [](attempt <= 3)
  /\ (driver = "resume" /\ IsDone(user_feedback))
       ~> (status = "error" \/ (Terminated /\ driver = "exited"))

\* C19 (as claimed): the driver leaves its loop on a response exactly when
\* the feedback step has moved the workflow to Terminated on it; it never
\* resumes a Terminated workflow and never exits while the workflow is
\* awaiting feedback.
C19_Claim ==
  /\ [][ driver = "check" => ((driver' = "exited") <=> Terminated) ]_vars
  /\ [](driver = "resume" => ~Terminated)
  /\ [](driver = "exited" => ~AwaitingFeedback)

====
